---------------------------- MODULE Spec2Model ----------------------------
(***************************************************************************)
(* A model of app.py: the chats table and its three operations, the        *)
(* stream_claude_sonnet generator, call_gpt5 and the /chat route.          *)
(*                                                                         *)
(* A text is a sequence of one-character strings, so that the string       *)
(* operations of the source (strip, split, count, startswith, re.sub) are  *)
(* computed on the characters.                                             *)
(***************************************************************************)
EXTENDS Integers, Sequences, FiniteSets, TLC

VARIABLES
    chats,          \* the rows of table chats, in id order (id = position)
    now,            \* CURRENT_TIMESTAMP, in seconds
    appended,       \* history: the save_msg calls made so far, in call order
    pc,             \* per request: where its handler or its stream stands
    data,           \* per request: the JSON body of the POST
    chat_history,   \* per request: chat()'s local chat_history
    adapter,        \* per request: the locals of stream_claude_sonnet and what it yielded
    consumed,       \* per request: the upstream lines r.iter_lines() has produced
    delivered,      \* per request: the chunks stream_gen has yielded to the client
    up,             \* per request: the state of the upstream HTTP call
    result,         \* per request: what call_gpt5 / gen() produced (non-streaming branch)
    response,       \* per request: what chat() returned to the caller
    before,         \* per request: table chats as it was when the request arrived
    db_lock,        \* the thread that holds db_lock, "" when it is free
    thread          \* per thread: the store operation it calls and where it stands

vars == <<chats, now, appended, pc, data, chat_history, adapter, consumed,
          delivered, up, result, response, before, db_lock, thread>>

(***************************************************************************)
(* Bounds of the model.                                                    *)
(***************************************************************************)
\* the clock takes the values 0..MaxClock
MaxClock == 2
\* rows a run of the store specification appends
MaxRows == 3
\* upstream lines one response carries
MaxLines == 2

(***************************************************************************)
(* Text constants of the source.                                           *)
(***************************************************************************)
\* the grave accent character of the source's code-fence marker (the TLA+ lexer does not
\* take that character inside a string literal, so it is written by name)
Backquote == "GRAVE"

\* app.py:350, the text stream_gen stores: "Full response accumulated client-side"
PlaceholderText ==
    <<"F","u","l","l"," ","r","e","s","p","o","n","s","e"," ","a","c","c","u","m","u","l","a",
      "t","e","d"," ","c","l","i","e","n","t","-","s","i","d","e">>

\* app.py:278, "[File: "
FilePrefix ==
    <<"[","F","i","l","e",":"," ">>

\* app.py:278, "]\n"
FileSuffix ==
    <<"]","\n">>

\* app.py:290, up to the first {last_line}
OpenPromptA ==
    <<"P","l","e","a","s","e"," ","c","o","n","t","i","n","u","e"," ","t","h","e"," ","c","o",
      "d","e"," ","p","r","e","c","i","s","e","l","y"," ","f","r","o","m"," ","t","h","e"," ",
      "l","a","s","t"," ","c","h","a","r","a","c","t","e","r"," ","o","f"," ","t","h","e"," ",
      "i","n","c","o","m","p","l","e","t","e"," ","l","i","n","e",":"," ","'">>

\* app.py:290-291, between the two {last_line}
OpenPromptB ==
    <<"'",".","\n","S","t","a","r","t"," ","y","o","u","r"," ","r","e","s","p","o","n","s","e",
      " ","w","i","t","h"," ","t","h","e"," ","e","x","a","c","t"," ","c","h","a","r","a","c",
      "t","e","r","s"," ","n","e","e","d","e","d"," ","t","o"," ","c","o","m","p","l","e","t",
      "e"," ","t","h","e"," ","l","i","n","e",","," ","w","i","t","h","o","u","t"," ","r","e",
      "p","e","a","t","i","n","g"," ","a","n","y"," ","p","a","r","t"," ","o","f"," ","'">>

\* app.py:291-293, after the second {last_line}
OpenPromptC ==
    <<"'",","," ","a","n","d"," ","w","i","t","h","o","u","t"," ","a","d","d","i","n","g"," ",
      "a","n","y"," ","e","x","t","r","a"," ","s","p","a","c","e","s",","," ","n","e","w","l",
      "i","n","e","s",","," ",Backquote,Backquote,Backquote," ","f","e","n","c","e","s",","," ",
      "o","r"," ","i","n","t","r","o","d","u","c","t","o","r","y"," ","p","h","r","a","s","e",
      "s","."," ","F","o","r"," ","e","x","a","m","p","l","e",","," ","i","f"," ","t","h","e",
      " ","l","a","s","t"," ","l","i","n","e"," ","w","a","s"," ","'","p","a","r","e","n","t",
      "_","i","'",","," ","s","t","a","r","t"," ","w","i","t","h"," ","'","d","'"," ","t","o",
      " ","c","o","m","p","l","e","t","e"," ","'","p","a","r","e","n","t","_","i","d","'"," ",
      "s","e","a","m","l","e","s","s","l","y",".">>

\* app.py:297-298, up to {last_lines}
ClosedPromptA ==
    <<"P","l","e","a","s","e"," ","c","o","n","t","i","n","u","e"," ","t","h","e"," ","r","e",
      "s","p","o","n","s","e"," ","p","r","e","c","i","s","e","l","y"," ","f","r","o","m"," ",
      "w","h","e","r","e"," ","y","o","u"," ","l","e","f","t"," ","o","f","f","."," ","T","h",
      "e"," ","l","a","s","t"," ","p","a","r","t"," ","w","a","s",":","\n">>

\* app.py:298-299, after {last_lines}
ClosedPromptB ==
    <<"\n","S","t","a","r","t"," ","w","i","t","h"," ","t","h","e"," ","n","e","x","t"," ","s",
      "e","n","t","e","n","c","e"," ","o","r"," ","c","o","n","t","e","n","t"," ","w","i","t",
      "h","o","u","t"," ","r","e","p","e","t","i","t","i","o","n",","," ","e","x","t","r","a",
      " ","s","p","a","c","e","s",","," ","n","e","w","l","i","n","e","s",","," ","o","r"," ",
      "i","n","t","r","o","d","u","c","t","o","r","y"," ","p","h","r","a","s","e","s",".">>

\* app.py:155, "Claude API Error: "
ClaudeApiError ==
    <<"C","l","a","u","d","e"," ","A","P","I"," ","E","r","r","o","r",":"," ">>

\* app.py:82, the opening tag of the pattern
ThinkOpen ==
    <<"<","t","h","i","n","k",">">>

\* app.py:82, the closing tag of the pattern
ThinkClose ==
    <<"<","/","t","h","i","n","k",">">>

\* a user question
TextQ ==
    <<"q">>

\* the question of another user
TextP ==
    <<"p">>

\* a text with whitespace around it
TextPadded ==
    <<" ","a","\n">>

\* a text that is one thinking span
TextThinkOnly ==
    <<"<","t","h","i","n","k",">","x","<","/","t","h","i","n","k",">">>

\* an upper-case opening tag, then an answer
TextThinkMixed ==
    <<"<","T","H","I","N","K",">","x","<","/","t","h","i","n","k",">","b">>

\* an answer after a closed thinking span whose text is %
TextNoteClosed ==
    <<"<","t","h","i","n","k",">","%","<","/","t","h","i","n","k",">","b">>

\* an answer cut inside a thinking span: the span is never closed
TextNoteUnclosed ==
    <<"b","<","t","h","i","n","k",">","%">>

\* an answer cut inside a code block
TextOpenCode ==
    <<Backquote,Backquote,Backquote,"\n","p","a","r","e","n","t","_","i">>

\* an answer of four lines, no code block
TextClosedLines ==
    <<"a","\n","b","\n","c","\n","d">>

\* a delta of one letter
DeltaA ==
    <<"a">>

\* a delta that is one code fence
DeltaFence ==
    <<Backquote,Backquote,Backquote>>

\* the first two characters of a fence split across deltas
DeltaTwoTicks ==
    <<Backquote,Backquote>>

\* the last character of a fence split across deltas
DeltaOneTick ==
    <<Backquote>>

\* a delta of whitespace only
DeltaSpace ==
    <<" ">>

\* a delta that is one full stop
DeltaDot ==
    <<".">>

\* a delta with a full stop after leading whitespace
DeltaDotX ==
    <<" ",".","x">>

\* a first delta that repeats the trailing line parent_i
DeltaParent ==
    <<"p","a","r","e","n","t","_","i","d"," ","i","s"," ","t","h","e"," ","k","e","y">>

\* the name of an attached file
FileName ==
    <<"f",".","p","y">>

(***************************************************************************)
(* Python's string operations.                                             *)
(***************************************************************************)
\* the characters str.strip / lstrip / rstrip remove by default
Whitespace == {" ", "\n", "\t", "\r"}

SetMin(S) == CHOOSE x \in S : \A y \in S : x <= y

SetMax(S) == CHOOSE x \in S : \A y \in S : x >= y

\* s.startswith(p)
StartsWith(s, p) == Len(p) <= Len(s) /\ \A m \in 1..Len(p) : s[m] = p[m]

\* s.endswith(p)
EndsWith(s, p) ==
    Len(p) <= Len(s) /\ \A m \in 1..Len(p) : s[Len(s) - Len(p) + m] = p[m]

\* s.lstrip(): the text from its first character that is no whitespace
LStrip(s) ==
    LET first == CHOOSE i \in 1..(Len(s) + 1) :
                     /\ \A j \in 1..(i - 1) : s[j] \in Whitespace
                     /\ i = Len(s) + 1 \/ s[i] \notin Whitespace
    IN  SubSeq(s, first, Len(s))

\* s.rstrip(): the text up to its last character that is no whitespace
RStrip(s) ==
    LET last == CHOOSE i \in 0..Len(s) :
                    /\ i = 0 \/ s[i] \notin Whitespace
                    /\ \A j \in (i + 1)..Len(s) : s[j] \in Whitespace
    IN  SubSeq(s, 1, last)

\* s.strip()
Strip(s) == LStrip(RStrip(s))

\* pat occurs in s at place j
OccursAt(s, pat, j) ==
    /\ j >= 1
    /\ j + Len(pat) - 1 <= Len(s)
    /\ \A m \in 1..Len(pat) : s[j + m - 1] = pat[m]

\* s.count(pat): the non-overlapping occurrences of pat, scanning from the left;
\* the scan resumes after each occurrence found
RECURSIVE CountFrom(_, _, _)
CountFrom(s, pat, i) ==
    LET found == {j \in i..(Len(s) - Len(pat) + 1) : OccursAt(s, pat, j)}
    IN  IF found = {} THEN 0
        ELSE 1 + CountFrom(s, pat, SetMin(found) + Len(pat))

Count(s, pat) == CountFrom(s, pat, 1)

\* the marker of a fenced code block
Fence == <<Backquote, Backquote, Backquote>>

\* s.split('\n')[-1]: the text after the last newline
LastLine(s) ==
    LET cut == CHOOSE i \in 0..Len(s) :
                   /\ i = 0 \/ s[i] = "\n"
                   /\ \A j \in (i + 1)..Len(s) : s[j] # "\n"
    IN  SubSeq(s, cut + 1, Len(s))

\* '\n'.join(s.split('\n')[-k:]): the text after the k-th newline from the end, the
\* whole text when it has fewer than k newlines
LastLines(s, k) ==
    LET cut == CHOOSE i \in 0..Len(s) :
                   LET after == Cardinality({j \in (i + 1)..Len(s) : s[j] = "\n"})
                   IN  IF i = 0 THEN after < k ELSE s[i] = "\n" /\ after = k - 1
    IN  SubSeq(s, cut + 1, Len(s))

UpperCase ==
    <<"A","B","C","D","E","F","G","H","I","J","K","L","M",
      "N","O","P","Q","R","S","T","U","V","W","X","Y","Z">>

LowerCase ==
    <<"a","b","c","d","e","f","g","h","i","j","k","l","m",
      "n","o","p","q","r","s","t","u","v","w","x","y","z">>

\* the case folding of re.IGNORECASE, one character
Lower(c) ==
    IF \E i \in 1..26 : UpperCase[i] = c
    THEN LowerCase[CHOOSE i \in 1..26 : UpperCase[i] = c]
    ELSE c

\* pat occurs in s at place j, letter case ignored (pat is in lower case)
OccursAtFolded(s, pat, j) ==
    /\ j >= 1
    /\ j + Len(pat) - 1 <= Len(s)
    /\ \A m \in 1..Len(pat) : Lower(s[j + m - 1]) = pat[m]

\* the places of s where the closing tag starts, from place i on
ClosesFrom(s, i) == {j \in i..Len(s) : OccursAtFolded(s, ThinkClose, j)}

\* the places of s where an opening tag starts that has a closing tag after it
Opens(s) ==
    {i \in 1..Len(s) :
        OccursAtFolded(s, ThinkOpen, i) /\ ClosesFrom(s, i + Len(ThinkOpen)) # {}}

\* re.sub(r'<think>[\s\S]*?</think>', '', s, flags=re.IGNORECASE): scanning from the
\* left, an opening tag that has a closing tag after it is removed together with the
\* text up to the FIRST closing tag; an opening tag with no closing tag stays.
RECURSIVE SubThink(_)
SubThink(s) ==
    LET opens == Opens(s)
    IN  IF opens = {} THEN s
        ELSE LET i == SetMin(opens)
                 j == SetMin(ClosesFrom(s, i + Len(ThinkOpen)))
             IN  SubSeq(s, 1, i - 1) \o SubThink(SubSeq(s, j + Len(ThinkClose), Len(s)))

(***************************************************************************)
(* The chats table (lines 41-48) and its operations.                       *)
(***************************************************************************)
Sessions == {"s1", "s2"}

\* one row of chats; its id is its position in the table
Row(sid, role, msg, t) == [session_id |-> sid, role |-> role, message |-> msg, ts |-> t]

\* save_msg with the session id ignored: every row goes to session s1
save_msgOneSession(db, t, sid, role, msg) == Append(db, Row("s1", role, msg, t))

\* save_msg(sid, role, msg) at second t: INSERT, ts DEFAULT CURRENT_TIMESTAMP
save_msg(db, t, sid, role, msg) == Append(db, Row(sid, role, msg, t))

\* ORDER BY ts ASC over the rows I: every order of the rows in which ts never
\* decreases (SQL leaves the order of rows of equal ts open)
RECURSIVE TsOrders(_, _)
TsOrders(db, I) ==
    IF I = {} THEN {<<>>}
    ELSE LET first == {i \in I : \A j \in I : db[i].ts <= db[j].ts}
         IN  UNION {{<<i>> \o rest : rest \in TsOrders(db, I \ {i})} : i \in first}

NonEmptyContent(m) == m.content # <<>>

\* load_msgs' loop without the re.sub of line 82
LoadedInRaw(db, o) ==
    LET all == [k \in 1..Len(o) |->
                   [role    |-> IF db[o[k]].role = "bot" THEN "assistant" ELSE db[o[k]].role,
                    content |-> Strip(db[o[k]].message)]]
    IN  SelectSeq(all, NonEmptyContent)

\* the body of load_msgs' loop over the rows in order o
LoadedIn(db, o) ==
    LET all == [k \in 1..Len(o) |->
                   [role    |-> IF db[o[k]].role = "bot" THEN "assistant" ELSE db[o[k]].role,
                    content |-> Strip(SubThink(db[o[k]].message))]]
    IN  SelectSeq(all, NonEmptyContent)

\* load_msgs(sid): the lists it can return
load_msgs(db, sid) ==
    {LoadedIn(db, o) : o \in TsOrders(db, {i \in DOMAIN db : db[i].session_id = sid})}

(***************************************************************************)
(* stream_claude_sonnet (lines 112-155).                                   *)
(*                                                                         *)
(* An upstream line is [prefix, kind, delta]: prefix says the line starts  *)
(* with "data: ", kind is what follows it, delta the "delta" field of a    *)
(* text-delta object.  The kinds:                                          *)
(*   empty             nothing (b"" when there is no prefix either)        *)
(*   bad_utf8          bytes that are not UTF-8                            *)
(*   done              [DONE]                                              *)
(*   not_json          text json.loads rejects                             *)
(*   json_non_object   JSON that is no object (a number, a list, null)     *)
(*   other_type        an object whose "type" is not "text-delta"          *)
(*   no_delta          {"type": "text-delta"} with no "delta" field        *)
(*   delta_non_string  {"type": "text-delta", "delta": 5}                  *)
(*   text_delta        {"type": "text-delta", "delta": <delta>}            *)
(***************************************************************************)
Line(prefix, kind, delta) == [prefix |-> prefix, kind |-> kind, delta |-> delta]

\* the generator's arguments and locals before its first line (lines 112, 127-129)
NewAdapter(is_continuation, last_partial_line) ==
    [is_continuation   |-> is_continuation,
     last_partial_line |-> last_partial_line,    \* <<>> stands for None
     code_fence_count  |-> 0,
     code_block_open   |-> FALSE,
     buffer            |-> <<>>,
     out               |-> <<>>,                 \* the (text, flag) pairs yielded so far
     raised            |-> ""]                   \* the exception that ended it, if any

\* yield delta, code_block_open (lines 150-151)
Emit(st, d, open) ==
    [st EXCEPT !.buffer = @ \o d, !.out = Append(@, [text |-> d, open |-> open])]

\* lines 154-155 with the exception swallowed: nothing is yielded
RaiseSilent(st, e) == [st EXCEPT !.raised = e]

\* except Exception as e: yield f"Claude API Error: {str(e)}", False (lines 154-155);
\* str(e) is one symbol naming the exception
Raise(st, e) ==
    [st EXCEPT !.out = Append(@, [text |-> ClaudeApiError \o <<e>>, open |-> FALSE]),
               !.raised = e]

\* lines 145-151 on a continuation's first text: the overlap correction
OverlapTrim(st, delta, open) ==
    LET d == LStrip(delta)
        L == st.last_partial_line
    IN  IF StartsWith(d, L) THEN Emit(st, SubSeq(d, Len(L) + 1, Len(d)), open)
        ELSE IF d = <<>> THEN Raise(st, "IndexError")            \* delta[0] of ""
        ELSE IF EndsWith(L, <<d[1]>>) THEN Emit(st, Tail(d), open)
        ELSE Emit(st, d, open)

\* lines 141-151: a text-delta object whose delta is the string delta
TextDelta(st, delta) ==
    IF delta = <<>> THEN st
    ELSE LET n    == st.code_fence_count + Count(delta, Fence)
             open == n % 2 = 1
             st1  == [st EXCEPT !.code_fence_count = n, !.code_block_open = open]
         IN  IF st.is_continuation /\ st.last_partial_line # <<>> /\ st.buffer = <<>>
             THEN OverlapTrim(st1, delta, open)
             ELSE Emit(st1, delta, open)

\* lines 131-153: the loop body on one line
ProcessLine(st, line) ==
    IF line.kind = "empty" /\ ~line.prefix THEN st                      \* if line:
    ELSE IF line.kind = "bad_utf8" THEN Raise(st, "UnicodeDecodeError") \* line 132
    ELSE IF line.kind = "done" THEN st                                  \* continue
    ELSE IF line.kind \in {"empty", "not_json"} THEN st                 \* JSONDecodeError
    ELSE IF line.kind = "json_non_object" THEN Raise(st, "AttributeError")   \* .get
    ELSE IF line.kind \in {"other_type", "no_delta"} THEN st
    ELSE IF line.kind = "delta_non_string" THEN Raise(st, "AttributeError")  \* .count
    ELSE TextDelta(st, line.delta)

\* the generator run over the lines ls, from state st: it stops at an exception
RECURSIVE RunLines(_, _)
RunLines(st, ls) ==
    IF ls = <<>> \/ st.raised # "" THEN st
    ELSE RunLines(ProcessLine(st, Head(ls)), Tail(ls))

(***************************************************************************)
(* The /chat route (lines 265-367) and call_gpt5 (lines 160-196).          *)
(***************************************************************************)
\* the request slots; a specification drives the ones its Next names
Requests == {"r1", "r2"}

\* the JSON body: fileInfo says a fileInfo object is present (its name is FileName),
\* gpt5ApiKey says a key is present
Data(session, model, action, text, fileInfo, gpt5ApiKey) ==
    [session |-> session, model |-> model, action |-> action, text |-> text,
     fileInfo |-> fileInfo, gpt5ApiKey |-> gpt5ApiKey]

NoData == Data("", "", "", <<>>, FALSE, FALSE)

NoResponse == [status |-> 0, kind |-> "none", error |-> "", content |-> <<>>]

\* Response(stream_with_context(stream_gen()), ...) (line 351)
StreamResponse == [status |-> 200, kind |-> "stream", error |-> "", content |-> <<>>]

\* jsonify({"error": e}), status
ErrorResponse(status, e) == [status |-> status, kind |-> "json", error |-> e, content |-> <<>>]

\* jsonify({"content": c})
ContentResponse(c) == [status |-> 200, kind |-> "json", error |-> "", content |-> c]

NoResult == [kind |-> "none", error |-> "", content |-> <<>>]

ErrorResult(e) == [kind |-> "error", error |-> e, content |-> <<>>]

ContentResult(c) == [kind |-> "content", error |-> "", content |-> c]

\* line 278: the text stored for the user's turn
UserMessage(d) ==
    IF d.fileInfo THEN FilePrefix \o FileName \o FileSuffix \o d.text ELSE d.text

\* lines 284-300: the continuation prompt built from the last loaded message
ContinueContent(last_content) ==
    LET last_lines      == LastLines(last_content, 3)
        last_line       == RStrip(LastLine(last_content))
        open_code_block == Count(last_content, Fence) % 2 = 1
    IN  IF open_code_block
        THEN OpenPromptA \o last_line \o OpenPromptB \o last_line \o OpenPromptC
        ELSE ClosedPromptA \o last_lines \o ClosedPromptB

\* line 283 without its role test
CanContinueNonEmpty(h) == h # <<>>

\* line 283: a continuation needs a loaded history that ends with an assistant message
CanContinue(h) == h # <<>> /\ h[Len(h)].role = "assistant"

\* line 317: the last_partial_line gen() passes to stream_claude_sonnet (<<>> is None)
GenLastLine(action, h) ==
    IF action = "continue" /\ h # <<>> THEN RStrip(LastLine(h[Len(h)].content)) ELSE <<>>

\* lines 184-189 of call_gpt5 on the provider's content
Gpt5Result(content) ==
    LET reply == Strip(content)
    IN  IF reply = <<>> THEN ErrorResult("Empty response received.") ELSE ContentResult(reply)

\* the history entry a save_msg call leaves
Call(sid, role, msg, t) == Row(sid, role, msg, t)

\* a request body arrives at /chat
Submit(r, D) ==
    /\ pc[r] = "idle"
    /\ \E d \in D : data' = [data EXCEPT ![r] = d]
    /\ before' = [before EXCEPT ![r] = chats]
    /\ pc' = [pc EXCEPT ![r] = "received"]
    /\ UNCHANGED <<chats, now, appended, chat_history, adapter, consumed, delivered,
                   up, result, response>>
    /\ UNCHANGED <<db_lock, thread>>

\* lines 275-279: action "chat" stores the user's turn
ChatSaveUser(r) ==
    /\ pc[r] = "received"
    /\ data[r].action = "chat"
    /\ chats' = save_msg(chats, now, data[r].session, "user", UserMessage(data[r]))
    /\ appended' = Append(appended, Call(data[r].session, "user", UserMessage(data[r]), now))
    /\ pc' = [pc EXCEPT ![r] = "saved"]
    /\ UNCHANGED <<now, data, chat_history, adapter, consumed, delivered, up, result,
                   response, before>>
    /\ UNCHANGED <<db_lock, thread>>

\* line 280: action "chat" loads the history
ChatLoad(r) ==
    /\ pc[r] = "saved"
    /\ \E h \in load_msgs(chats, data[r].session) :
           chat_history' = [chat_history EXCEPT ![r] = h]
    /\ pc' = [pc EXCEPT ![r] = "ready"]
    /\ UNCHANGED <<chats, now, appended, data, adapter, consumed, delivered, up, result,
                   response, before>>
    /\ UNCHANGED <<db_lock, thread>>

\* lines 281-309: action "continue" loads the history and appends the prompt, or
\* answers 400 when there is no assistant message at its end
ChatContinue(r) ==
    /\ pc[r] = "received"
    /\ data[r].action = "continue"
    /\ \E h \in load_msgs(chats, data[r].session) :
           IF CanContinue(h)
           THEN /\ chat_history' = [chat_history EXCEPT ![r] =
                       Append(h, [role |-> "user", content |-> ContinueContent(h[Len(h)].content)])]
                /\ pc' = [pc EXCEPT ![r] = "ready"]
                /\ UNCHANGED response
           ELSE /\ response' = [response EXCEPT ![r] =
                       ErrorResponse(400, "No previous bot message to continue.")]
                /\ pc' = [pc EXCEPT ![r] = "done"]
                /\ UNCHANGED chat_history
    /\ UNCHANGED <<chats, now, appended, data, adapter, consumed, delivered, up, result,
                   before>>
    /\ UNCHANGED <<db_lock, thread>>

\* lines 310-311: any other action
ChatInvalid(r) ==
    /\ pc[r] = "received"
    /\ data[r].action \notin {"chat", "continue"}
    /\ response' = [response EXCEPT ![r] = ErrorResponse(400, "Invalid action.")]
    /\ pc' = [pc EXCEPT ![r] = "done"]
    /\ UNCHANGED <<chats, now, appended, data, chat_history, adapter, consumed, delivered,
                   up, result, before>>
    /\ UNCHANGED <<db_lock, thread>>

\* lines 343-351 with the POST made before the Response is returned
ReturnStreamConnected(r) ==
    /\ pc[r] = "ready"
    /\ data[r].model = "claude-sonnet-3.7"
    /\ response' = [response EXCEPT ![r] = StreamResponse]
    /\ adapter' = [adapter EXCEPT ![r] =
           NewAdapter(data[r].action = "continue", GenLastLine(data[r].action, chat_history[r]))]
    /\ up' = [up EXCEPT ![r] = "open"]
    /\ pc' = [pc EXCEPT ![r] = "reading"]
    /\ UNCHANGED <<chats, now, appended, data, chat_history, consumed, delivered,
                   result, before>>
    /\ UNCHANGED <<db_lock, thread>>

\* lines 343-351: the streaming branch returns the Response; its generator has not run
ReturnStream(r) ==
    /\ pc[r] = "ready"
    /\ data[r].model = "claude-sonnet-3.7"
    /\ response' = [response EXCEPT ![r] = StreamResponse]
    /\ adapter' = [adapter EXCEPT ![r] =
           NewAdapter(data[r].action = "continue", GenLastLine(data[r].action, chat_history[r]))]
    /\ pc' = [pc EXCEPT ![r] = "streaming"]
    /\ UNCHANGED <<chats, now, appended, data, chat_history, consumed, delivered, up,
                   result, before>>
    /\ UNCHANGED <<db_lock, thread>>

\* line 125: the POST is answered with a success status
ClaudeConnect(r) ==
    /\ pc[r] = "streaming"
    /\ up[r] = "none"
    /\ up' = [up EXCEPT ![r] = "open"]
    /\ pc' = [pc EXCEPT ![r] = "reading"]
    /\ UNCHANGED <<chats, now, appended, data, chat_history, adapter, consumed, delivered,
                   result, response, before>>
    /\ UNCHANGED <<db_lock, thread>>

\* lines 318-320, 346-347 with the chunks dropped on the way to the client
NewChunksLost(old, new) == <<>>

\* the chunks gen() and stream_gen pass on (lines 318-320, 346-347): the texts of
\* the pairs the adapter yielded in this step
NewChunks(old, new) ==
    [k \in 1..(Len(new.out) - Len(old.out)) |-> new.out[Len(old.out) + k].text]

\* lines 130-153: iter_lines produces one more line
ReadLine(r, Ls) ==
    /\ pc[r] = "reading"
    /\ up[r] = "open"
    /\ Len(consumed[r]) < MaxLines
    /\ \E line \in Ls :
           LET st == ProcessLine(adapter[r], line)
           IN  /\ adapter' = [adapter EXCEPT ![r] = st]
               /\ consumed' = [consumed EXCEPT ![r] = Append(@, line)]
               /\ delivered' = [delivered EXCEPT ![r] = @ \o NewChunks(adapter[r], st)]
               /\ pc' = [pc EXCEPT ![r] = IF st.raised # "" THEN "closing" ELSE "reading"]
               /\ up' = [up EXCEPT ![r] = IF st.raised # "" THEN "closed" ELSE "open"]
    /\ UNCHANGED <<chats, now, appended, data, chat_history, result, response, before>>
    /\ UNCHANGED <<db_lock, thread>>

\* iter_lines is exhausted: the generator returns
ReadEnd(r) ==
    /\ pc[r] = "reading"
    /\ up[r] = "open"
    /\ up' = [up EXCEPT ![r] = "done"]
    /\ pc' = [pc EXCEPT ![r] = "closing"]
    /\ UNCHANGED <<chats, now, appended, data, chat_history, adapter, consumed, delivered,
                   result, response, before>>
    /\ UNCHANGED <<db_lock, thread>>

\* lines 125-130, 154-155: the POST, raise_for_status or iter_lines raises
UpstreamFail(r) ==
    /\ pc[r] \in {"streaming", "reading"}
    /\ up[r] \in {"none", "open"}
    /\ LET st == Raise(adapter[r], "RequestException")
       IN  /\ adapter' = [adapter EXCEPT ![r] = st]
           /\ delivered' = [delivered EXCEPT ![r] = @ \o NewChunks(adapter[r], st)]
    /\ up' = [up EXCEPT ![r] = "failed"]
    /\ pc' = [pc EXCEPT ![r] = "closing"]
    /\ UNCHANGED <<chats, now, appended, data, chat_history, consumed, result, response,
                   before>>
    /\ UNCHANGED <<db_lock, thread>>

\* lines 125, 179: the provider stops answering; no timeout is passed to post
UpstreamHang(r) ==
    /\ IF pc[r] = "calling" THEN up[r] = "pending"
       ELSE pc[r] \in {"streaming", "reading"} /\ up[r] \in {"none", "open"}
    /\ up' = [up EXCEPT ![r] = "hung"]
    /\ UNCHANGED <<chats, now, appended, pc, data, chat_history, adapter, consumed,
                   delivered, result, response, before>>
    /\ UNCHANGED <<db_lock, thread>>

\* line 350: after the generator ended, stream_gen stores the placeholder
StreamSave(r) ==
    /\ pc[r] = "closing"
    /\ chats' = save_msg(chats, now, data[r].session, "bot", PlaceholderText)
    /\ appended' = Append(appended, Call(data[r].session, "bot", PlaceholderText, now))
    /\ pc' = [pc EXCEPT ![r] = "done"]
    /\ UNCHANGED <<now, data, chat_history, adapter, consumed, delivered, up, result,
                   response, before>>
    /\ UNCHANGED <<db_lock, thread>>

\* lines 321-328, 355: the non-streaming branch runs gen() inside the handler; without
\* a key call_gpt5 returns at once (lines 161-162), another model is refused (327-328)
CallGpt5(r) ==
    /\ pc[r] = "ready"
    /\ data[r].model = "gpt-5"
    /\ IF data[r].gpt5ApiKey
       THEN /\ up' = [up EXCEPT ![r] = "pending"]
            /\ pc' = [pc EXCEPT ![r] = "calling"]
            /\ UNCHANGED result
       ELSE /\ result' = [result EXCEPT ![r] = ErrorResult("No API key provided.")]
            /\ pc' = [pc EXCEPT ![r] = "finishing"]
            /\ UNCHANGED up
    /\ UNCHANGED <<chats, now, appended, data, chat_history, adapter, consumed, delivered,
                   response, before>>
    /\ UNCHANGED <<db_lock, thread>>

\* lines 326-328: a model that is neither of the two
Unsupported(r) ==
    /\ pc[r] = "ready"
    /\ data[r].model \notin {"claude-sonnet-3.7", "gpt-5"}
    /\ result' = [result EXCEPT ![r] = ErrorResult("The selected model is not supported.")]
    /\ pc' = [pc EXCEPT ![r] = "finishing"]
    /\ UNCHANGED <<chats, now, appended, data, chat_history, adapter, consumed, delivered,
                   up, response, before>>
    /\ UNCHANGED <<db_lock, thread>>

\* lines 179-189: the provider answers with the message content c
Gpt5Answer(r, Cs) ==
    /\ pc[r] = "calling"
    /\ up[r] = "pending"
    /\ \E c \in Cs : result' = [result EXCEPT ![r] = Gpt5Result(c)]
    /\ up' = [up EXCEPT ![r] = "done"]
    /\ pc' = [pc EXCEPT ![r] = "finishing"]
    /\ UNCHANGED <<chats, now, appended, data, chat_history, adapter, consumed, delivered,
                   response, before>>
    /\ UNCHANGED <<db_lock, thread>>

\* lines 191-192: the POST or raise_for_status raises
Gpt5Fail(r) ==
    /\ pc[r] = "calling"
    /\ up[r] = "pending"
    /\ result' = [result EXCEPT ![r] = ErrorResult("Network Error")]
    /\ up' = [up EXCEPT ![r] = "failed"]
    /\ pc' = [pc EXCEPT ![r] = "finishing"]
    /\ UNCHANGED <<chats, now, appended, data, chat_history, adapter, consumed, delivered,
                   response, before>>
    /\ UNCHANGED <<db_lock, thread>>

\* lines 356-362, 366-367: the handler stores a content and returns the JSON; with
\* an error result of a continuation, line 361 reads code_block_open, which is a
\* local of gen() and no name of chat(): NameError, answered 500 by line 367
ChatFinish(r) ==
    /\ pc[r] = "finishing"
    /\ IF result[r].kind = "content"
       THEN /\ chats' = save_msg(chats, now, data[r].session, "bot", result[r].content)
            /\ appended' = Append(appended,
                                  Call(data[r].session, "bot", result[r].content, now))
            /\ response' = [response EXCEPT ![r] = ContentResponse(result[r].content)]
       ELSE /\ response' = [response EXCEPT ![r] =
                   IF data[r].action = "continue"
                   THEN ErrorResponse(500, "Server error: NameError")
                   ELSE ErrorResponse(200, result[r].error)]
            /\ UNCHANGED <<chats, appended>>
    /\ pc' = [pc EXCEPT ![r] = "done"]
    /\ UNCHANGED <<now, data, chat_history, adapter, consumed, delivered, up, result,
                   before>>
    /\ UNCHANGED <<db_lock, thread>>

\* a second passes
Tick ==
    /\ now < MaxClock
    /\ now' = now + 1
    /\ UNCHANGED <<chats, appended, pc, data, chat_history, adapter, consumed, delivered,
                   up, result, response, before>>
    /\ UNCHANGED <<db_lock, thread>>

\* save_msg called alone (the store's append operation), with one of the calls Cs
SaveMsgCall(Cs) ==
    /\ Len(chats) < MaxRows
    /\ \E c \in Cs :
           /\ chats' = save_msg(chats, now, c[1], c[2], c[3])
           /\ appended' = Append(appended, Call(c[1], c[2], c[3], now))
    /\ UNCHANGED <<now, pc, data, chat_history, adapter, consumed, delivered, up, result,
                   response, before>>
    /\ UNCHANGED <<db_lock, thread>>


(***************************************************************************)
(* save_msg and update_last_bot_message as calls of threads, step by step, *)
(* with db_lock (line 18: threading.Lock(), not reentrant).                *)
(***************************************************************************)
Threads == {"t1", "t2"}

\* a thread that calls nothing
NoCall == [op |-> "none", pc |-> "idle", sid |-> "", role |-> "", msg |-> <<>>,
           nested |-> FALSE]

\* save_msg(sid, role, msg) is called: the thread is at line 52
SaveCall(sid, role, msg) ==
    [op |-> "save_msg", pc |-> "save_wait", sid |-> sid, role |-> role, msg |-> msg,
     nested |-> FALSE]

\* update_last_bot_message(sid, new_content_chunk) is called: the thread is at line 58
UpdateCall(sid, new_content_chunk) ==
    [op |-> "update_last_bot_message", pc |-> "update_wait", sid |-> sid, role |-> "bot",
     msg |-> new_content_chunk, nested |-> FALSE]

\* a thread calls one of the operations Cs
StartCall(t, Cs) ==
    /\ thread[t].pc = "idle"
    /\ \E c \in Cs : thread' = [thread EXCEPT ![t] = c]
    /\ UNCHANGED <<chats, now, appended, pc, data, chat_history, adapter, consumed,
                   delivered, up, result, response, before, db_lock>>

\* line 52: with db_lock, entered when the lock is free
SaveAcquire(t) ==
    /\ thread[t].pc = "save_wait"
    /\ db_lock = ""
    /\ db_lock' = t
    /\ thread' = [thread EXCEPT ![t].pc = "save_insert"]
    /\ UNCHANGED <<chats, now, appended, pc, data, chat_history, adapter, consumed,
                   delivered, up, result, response, before>>

\* lines 53-55: INSERT, commit, and the with block is left; a call made from
\* update_last_bot_message returns to its line 73
SaveInsert(t) ==
    /\ thread[t].pc = "save_insert"
    /\ chats' = save_msg(chats, now, thread[t].sid, thread[t].role, thread[t].msg)
    /\ appended' = Append(appended, Row(thread[t].sid, thread[t].role, thread[t].msg, now))
    /\ db_lock' = ""
    /\ thread' = [thread EXCEPT ![t].pc = IF thread[t].nested THEN "update_commit"
                                           ELSE "returned"]
    /\ UNCHANGED <<now, pc, data, chat_history, adapter, consumed, delivered, up, result,
                   response, before>>

\* line 58: with db_lock, entered when the lock is free
UpdateAcquire(t) ==
    /\ thread[t].pc = "update_wait"
    /\ db_lock = ""
    /\ db_lock' = t
    /\ thread' = [thread EXCEPT ![t].pc = "update_select"]
    /\ UNCHANGED <<chats, now, appended, pc, data, chat_history, adapter, consumed,
                   delivered, up, result, response, before>>

\* line 60: WHERE session_id=? AND role='bot' ORDER BY ts DESC LIMIT 1: the rows the
\* SELECT can return, the bot rows of the session with the greatest ts
LastBotRows(db, sid) ==
    LET bots == {i \in DOMAIN db : db[i].session_id = sid /\ db[i].role = "bot"}
    IN  {i \in bots : \A j \in bots : db[j].ts <= db[i].ts}

\* lines 60-69: a row is found: UPDATE chats SET message = existing + chunk WHERE id
UpdateAppend(t) ==
    /\ thread[t].pc = "update_select"
    /\ \E i \in LastBotRows(chats, thread[t].sid) :
           chats' = [chats EXCEPT ![i].message = @ \o thread[t].msg]
    /\ thread' = [thread EXCEPT ![t].pc = "update_commit"]
    /\ UNCHANGED <<now, appended, pc, data, chat_history, adapter, consumed, delivered,
                   up, result, response, before, db_lock>>

\* lines 60-61, 70-72: no row is found: save_msg is called with db_lock still held,
\* and waits for it at its line 52
UpdateInsert(t) ==
    /\ thread[t].pc = "update_select"
    /\ LastBotRows(chats, thread[t].sid) = {}
    /\ thread' = [thread EXCEPT ![t].pc = "save_wait", ![t].nested = TRUE]
    /\ UNCHANGED <<chats, now, appended, pc, data, chat_history, adapter, consumed,
                   delivered, up, result, response, before, db_lock>>

\* lines 73-74: commit, the with block is left, return
UpdateReturn(t) ==
    /\ thread[t].pc = "update_commit"
    /\ db_lock' = ""
    /\ thread' = [thread EXCEPT ![t].pc = "returned"]
    /\ UNCHANGED <<chats, now, appended, pc, data, chat_history, adapter, consumed,
                   delivered, up, result, response, before>>
(***************************************************************************)
(* Initial states and inputs.                                              *)
(***************************************************************************)
\* a table left by earlier turns: a question of session s1 and its answer
StoreWith(answer) == <<Row("s1", "user", TextQ, 0), Row("s1", "bot", answer, 1)>>

\* the tables a run starts from: empty, a question alone, a question and an answer
InitStores ==
    {<<>>, <<Row("s1", "user", TextQ, 0)>>, StoreWith(TextOpenCode), StoreWith(TextClosedLines)}

IdleRequests ==
    /\ pc = [r \in Requests |-> "idle"]
    /\ data = [r \in Requests |-> NoData]
    /\ chat_history = [r \in Requests |-> <<>>]
    /\ adapter = [r \in Requests |-> NewAdapter(FALSE, <<>>)]
    /\ consumed = [r \in Requests |-> <<>>]
    /\ delivered = [r \in Requests |-> <<>>]
    /\ up = [r \in Requests |-> "none"]
    /\ result = [r \in Requests |-> NoResult]
    /\ response = [r \in Requests |-> NoResponse]
    /\ before = [r \in Requests |-> <<>>]
    /\ db_lock = ""
    /\ thread = [t \in Threads |-> NoCall]

Init ==
    /\ chats \in InitStores
    /\ now = IF chats = <<>> THEN 0 ELSE chats[Len(chats)].ts
    /\ appended = chats
    /\ IdleRequests

\* the request bodies of the full specification
Bodies ==
    {Data(s, m, a, TextQ, FALSE, k) :
        s \in {"s1"}, m \in {"claude-sonnet-3.7", "gpt-5", "other"},
        a \in {"chat", "continue", "edit"}, k \in BOOLEAN}

\* the upstream lines of the full specification
FewLines ==
    {Line(TRUE, "done", <<>>), Line(TRUE, "text_delta", DeltaA),
     Line(TRUE, "text_delta", DeltaFence)}

\* the contents the other provider answers with
Contents == {<<>>, TextOpenCode}

Next ==
    \/ \E r \in {"r1"} : Submit(r, Bodies)
    \/ \E r \in {"r1"} : ChatSaveUser(r)
    \/ \E r \in {"r1"} : ChatLoad(r)
    \/ \E r \in {"r1"} : ChatContinue(r)
    \/ \E r \in {"r1"} : ChatInvalid(r)
    \/ \E r \in {"r1"} : ReturnStream(r)
    \/ \E r \in {"r1"} : ClaudeConnect(r)
    \/ \E r \in {"r1"} : ReadLine(r, FewLines)
    \/ \E r \in {"r1"} : ReadEnd(r)
    \/ \E r \in {"r1"} : UpstreamFail(r)
    \/ \E r \in {"r1"} : UpstreamHang(r)
    \/ \E r \in {"r1"} : StreamSave(r)
    \/ \E r \in {"r1"} : CallGpt5(r)
    \/ \E r \in {"r1"} : Unsupported(r)
    \/ \E r \in {"r1"} : Gpt5Answer(r, Contents)
    \/ \E r \in {"r1"} : Gpt5Fail(r)
    \/ \E r \in {"r1"} : ChatFinish(r)
    \/ Tick

Spec == Init /\ [][Next]_vars

\* the request bodies of the adapter specification: the streaming model
ClaudeBodies ==
    {Data("s1", "claude-sonnet-3.7", a, TextQ, FALSE, FALSE) : a \in {"chat", "continue"}}

\* line 299 as gen() passes it on: the last line of the closed-block prompt
ClosedPromptTail == Tail(ClosedPromptB)

\* the texts of the upstream increments
Deltas ==
    {DeltaA, DeltaFence, DeltaTwoTicks, DeltaOneTick, DeltaSpace, DeltaDot, DeltaDotX,
     DeltaParent, ClosedPromptTail \o DeltaA}

\* the upstream lines of the adapter specification
ManyLines ==
    {Line(FALSE, "empty", <<>>), Line(TRUE, "empty", <<>>), Line(FALSE, "bad_utf8", <<>>),
     Line(FALSE, "done", <<>>), Line(TRUE, "done", <<>>), Line(TRUE, "not_json", <<>>),
     Line(TRUE, "json_non_object", <<>>), Line(TRUE, "other_type", <<>>),
     Line(TRUE, "no_delta", <<>>), Line(TRUE, "delta_non_string", <<>>),
     Line(TRUE, "text_delta", <<>>), Line(FALSE, "text_delta", DeltaA)}
    \cup {Line(TRUE, "text_delta", d) : d \in Deltas}

NextAdapter ==
    \/ Submit("r1", ClaudeBodies)
    \/ ChatSaveUser("r1")
    \/ ChatLoad("r1")
    \/ ChatContinue("r1")
    \/ ReturnStream("r1")
    \/ ClaudeConnect("r1")
    \/ ReadLine("r1", ManyLines)
    \/ ReadEnd("r1")
    \/ UpstreamFail("r1")
    \/ UpstreamHang("r1")
    \/ StreamSave("r1")

\* one streaming request, every kind of upstream line
SpecAdapter == Init /\ [][NextAdapter]_vars

\* the save_msg calls of the store specification, <<session, role, text>>: texts
\* that are empty, padded with whitespace, a thinking span alone, a thinking span
\* before an answer, for both roles, and a call for another session
StoreCalls ==
    {<<"s1", "user", <<>>>>, <<"s1", "user", TextPadded>>, <<"s1", "bot", TextPadded>>,
     <<"s1", "bot", TextThinkOnly>>, <<"s1", "bot", TextThinkMixed>>,
     <<"s2", "user", TextQ>>}

InitStore ==
    /\ chats = <<>>
    /\ now = 0
    /\ appended = <<>>
    /\ IdleRequests

NextStore ==
    \/ SaveMsgCall(StoreCalls)
    \/ Tick

\* the store alone: save_msg calls at any seconds
SpecStore == InitStore /\ [][NextStore]_vars

\* tables whose answer holds a thinking span, closed or cut before its closing tag
ThinkStores == {StoreWith(TextNoteClosed), StoreWith(TextNoteUnclosed)}

InitThink ==
    /\ chats \in ThinkStores
    /\ now = chats[Len(chats)].ts
    /\ appended = chats
    /\ IdleRequests

\* one request on a table that holds a thinking span
SpecThink == InitThink /\ [][Next]_vars

\* two clients, each with a session of its own: its request body (action chat, either
\* model) and the content the other provider answers it with
PairBodies(r) ==
    {Data(IF r = "r1" THEN "s1" ELSE "s2", m, "chat", IF r = "r1" THEN TextQ ELSE TextP,
          FALSE, TRUE) : m \in {"claude-sonnet-3.7", "gpt-5"}}

PairContents(r) == IF r = "r1" THEN {TextOpenCode} ELSE {TextClosedLines}

PairLines == {Line(TRUE, "text_delta", DeltaA)}

NextPair ==
    \/ \E r \in Requests : Submit(r, PairBodies(r))
    \/ \E r \in Requests : ChatSaveUser(r)
    \/ \E r \in Requests : ChatLoad(r)
    \/ \E r \in Requests : ReturnStream(r)
    \/ \E r \in Requests : ClaudeConnect(r)
    \/ \E r \in Requests : ReadLine(r, PairLines)
    \/ \E r \in Requests : ReadEnd(r)
    \/ \E r \in Requests : StreamSave(r)
    \/ \E r \in Requests : CallGpt5(r)
    \/ \E r \in Requests : Gpt5Answer(r, PairContents(r))
    \/ \E r \in Requests : ChatFinish(r)

\* two chat requests for two sessions, their steps interleaved in every way
SpecPair == InitStore /\ [][NextPair]_vars

\* the tables of the lock specification: empty; bot messages of two sessions stored in
\* different seconds; two bot messages of one session stored in the same second
LockStores ==
    {<<>>,
     <<Row("s1", "user", TextQ, 0), Row("s1", "bot", DeltaA, 0),
       Row("s2", "bot", TextP, 0), Row("s1", "bot", DeltaFence, 1)>>,
     <<Row("s1", "bot", DeltaA, 0), Row("s1", "bot", DeltaFence, 0)>>}

\* the calls the threads make
LockCalls ==
    {SaveCall("s1", "bot", DeltaA), SaveCall("s2", "user", TextP),
     UpdateCall("s1", DeltaDot), UpdateCall("s2", DeltaDot)}

InitLock ==
    /\ chats \in LockStores
    /\ now = IF chats = <<>> THEN 0 ELSE chats[Len(chats)].ts
    /\ appended = chats
    /\ IdleRequests

NextLock ==
    \/ \E t \in Threads : StartCall(t, LockCalls)
    \/ \E t \in Threads : SaveAcquire(t)
    \/ \E t \in Threads : SaveInsert(t)
    \/ \E t \in Threads : UpdateAcquire(t)
    \/ \E t \in Threads : UpdateAppend(t)
    \/ \E t \in Threads : UpdateInsert(t)
    \/ \E t \in Threads : UpdateReturn(t)
    \/ Tick

\* two threads, each calling save_msg or update_last_bot_message once
SpecLock == InitLock /\ [][NextLock]_vars
(***************************************************************************)
(* The claims.                                                             *)
(***************************************************************************)
\* the texts of ss, one after the other
RECURSIVE Concat(_)
Concat(ss) == IF ss = <<>> THEN <<>> ELSE Head(ss) \o Concat(Tail(ss))

\* the ids of the bot rows of a session
BotRows(db, sid) == {i \in DOMAIN db : db[i].session_id = sid /\ db[i].role = "bot"}

\* the text of the bot row of a session that was appended last
LastBotMessage(db, sid) == db[SetMax(BotRows(db, sid))].message

Streaming(r) == data[r].model = "claude-sonnet-3.7"

\* C1: when a chat-action generation has ended with its upstream sequence exhausted,
\* the session's last stored assistant message is the concatenation, in delivery
\* order, of the increments delivered to the client for that turn.
C1_StoredIsDelivered ==
    \A r \in Requests :
        (pc[r] = "done" /\ data[r].action = "chat" /\ Streaming(r) /\ up[r] = "done"
            /\ delivered[r] # <<>>)
            => /\ BotRows(chats, data[r].session) # {}
               /\ LastBotMessage(chats, data[r].session) = Concat(delivered[r])

\* what the provider sent for the turn: the delivered increments, or the content
Received(r) == IF Streaming(r) THEN Concat(delivered[r]) ELSE result[r].content

\* the generation of request r ran to its end
Completed(r) ==
    /\ pc[r] = "done"
    /\ IF Streaming(r) THEN up[r] = "done" ELSE result[r].kind = "content"

\* C2: after a completed continue-action generation the session holds as many
\* assistant messages as before the request, and its last assistant message is its
\* prior text followed by the increments of the turn.
C2_ContinueExtendsLast ==
    \A r \in Requests :
        (Completed(r) /\ data[r].action = "continue")
            => /\ Cardinality(BotRows(chats, data[r].session))
                    = Cardinality(BotRows(before[r], data[r].session))
               /\ LastBotMessage(chats, data[r].session)
                    = LastBotMessage(before[r], data[r].session) \o Received(r)

\* the places of the non-empty text increments among the lines read
IncrementPlaces(r) ==
    {k \in 1..Len(consumed[r]) :
        consumed[r][k].kind = "text_delta" /\ consumed[r][k].delta # <<>>}

\* no line read before place k makes the generator raise
QuietBefore(r, k) ==
    \A j \in 1..(k - 1) :
        consumed[r][j].kind \notin {"bad_utf8", "json_non_object", "delta_non_string"}

\* the trailing line of the assistant message a continuation resumes
PriorTrailingLine(r) ==
    RStrip(LastLine(chat_history[r][Len(chat_history[r]) - 1].content))

\* C3: in a continue request whose prior assistant message ends with the partial line
\* L, when the first non-empty increment, stripped of leading whitespace, starts with
\* L, the first chunk delivered is that increment without the prefix L.
C3_FirstChunkTrimmed ==
    \A r \in Requests :
        (data[r].action = "continue" /\ IncrementPlaces(r) # {}
            /\ QuietBefore(r, SetMin(IncrementPlaces(r))))
            => LET d == LStrip(consumed[r][SetMin(IncrementPlaces(r))].delta)
                   L == PriorTrailingLine(r)
               IN  StartsWith(d, L)
                       => /\ delivered[r] # <<>>
                          /\ delivered[r][1] = SubSeq(d, Len(L) + 1, Len(d))

\* the pairs the adapter yielded for increments (its closing error pair left out)
TextYields(r) ==
    SubSeq(adapter[r].out, 1,
           Len(adapter[r].out) - (IF adapter[r].raised # "" THEN 1 ELSE 0))

\* the texts of the non-empty increments read, in order
IsIncrement(line) == line.kind = "text_delta" /\ line.delta # <<>>

IncrementTexts(r) ==
    LET incs == SelectSeq(consumed[r], IsIncrement)
    IN  [k \in 1..Len(incs) |-> incs[k].delta]

\* C4: the code-block-open flag reported with each increment is true iff the
\* concatenation of the increment texts received so far holds an odd number of
\* triple-backquote markers, however the text is split into increments.
C4_FlagIsParity ==
    \A r \in Requests :
        \A k \in 1..Len(TextYields(r)) :
            TextYields(r)[k].open
                = (Count(Concat(SubSeq(IncrementTexts(r), 1, k)), Fence) % 2 = 1)

\* a loaded history a continuation cannot resume: empty, or ending with a user message
EndsWithUserOrEmpty(h) == h = <<>> \/ h[Len(h)].role = "user"

\* request r leaves the point where chat() has read its body
Handled(r) == pc[r] = "received" /\ pc'[r] # "received"

\* C5: a continue request whose loaded history is empty or ends with a user message is
\* answered with an error, no upstream call is made for it and the table is unchanged.
C5_ContinueRefused ==
    /\ [](\A r \in Requests :
             response[r] = ErrorResponse(400, "No previous bot message to continue.")
                 => pc[r] = "done" /\ up[r] = "none" /\ delivered[r] = <<>>)
    /\ [][\A r \in Requests :
          (Handled(r) /\ data[r].action = "continue"
              /\ \A h \in load_msgs(chats, data[r].session) : EndsWithUserOrEmpty(h))
              => /\ response'[r] = ErrorResponse(400, "No previous bot message to continue.")
                 /\ pc'[r] = "done"
                 /\ up'[r] = "none"
                 /\ chats' = chats
                 /\ appended' = appended]_vars

\* a continuation was refused
C5_Witness ==
    \E r \in Requests :
        /\ data[r].action = "continue"
        /\ response[r] = ErrorResponse(400, "No previous bot message to continue.")
        /\ chats # <<>>

\* the role load_msgs reports for a stored role
LoadedRole(role) == IF role = "bot" THEN "assistant" ELSE role

\* the places in the call history of the save_msg calls of a session
CallsOf(sid) == {i \in DOMAIN appended : appended[i].session_id = sid}

\* the i-th of a set of numbers, counting from the smallest
RECURSIVE Nth(_, _)
Nth(S, i) == IF i = 1 THEN SetMin(S) ELSE Nth(S \ {SetMin(S)}, i - 1)

CleanText(msg) == Strip(SubThink(msg))

\* the save_msg calls of a session whose text does not clean to nothing
KeptCalls(sid) == {i \in CallsOf(sid) : CleanText(appended[i].message) # <<>>}

\* the kept save_msg calls of a session, in call order
KeptSeq(sid) ==
    SelectSeq(appended, LAMBDA c : c.session_id = sid /\ CleanText(c.message) # <<>>)

\* the entry load_msgs owes for a kept call
Entry(c) == [role |-> LoadedRole(c.role), content |-> CleanText(c.message)]

\* the entries owed for the calls cs, in their order
RECURSIVE Entries(_)
Entries(cs) == IF cs = <<>> THEN <<>> ELSE <<Entry(Head(cs))>> \o Entries(Tail(cs))

Returns(r) == response[r].kind = "none" /\ response'[r].kind # "none"

RequestStep(r) ==
    \/ ChatSaveUser(r) \/ ChatLoad(r) \/ ChatContinue(r) \/ ChatInvalid(r)
    \/ ReturnStream(r) \/ ClaudeConnect(r) \/ ReadLine(r, FewLines) \/ ReadEnd(r)
    \/ UpstreamFail(r) \/ StreamSave(r) \/ CallGpt5(r) \/ Unsupported(r)
    \/ Gpt5Answer(r, Contents) \/ Gpt5Fail(r) \/ ChatFinish(r)

\* C8: every generation request terminates: when the provider never answers or never
\* finishes, the wait is bounded and ends as a transport failure, so a request that
\* has started and is not done can always take a further step.
C8_NeverStuck ==
    \A r \in Requests : pc[r] \notin {"idle", "done"} => ENABLED RequestStep(r)

\* a yielded pair that is the synthetic provider-error increment of line 155
IsProviderError(y) == StartsWith(y.text, ClaudeApiError)

\* the texts of the pairs ys
Texts(ys) == [k \in 1..Len(ys) |-> ys[k].text]

\* C9: when a transport failure occurs in stream_claude_sonnet, before the first
\* increment or mid-stream, the adapter emits exactly one synthetic provider-error
\* increment, as the last item of the sequence, and every increment emitted before
\* the failure stays delivered and unchanged.
C9_TransportFailure ==
    /\ [](\A r \in Requests :
             up[r] = "failed"
                 => LET out == adapter[r].out
                    IN  /\ out # <<>>
                        /\ IsProviderError(out[Len(out)])
                        /\ \A k \in 1..(Len(out) - 1) : ~IsProviderError(out[k])
                        /\ delivered[r] = Texts(out))
    /\ [][\A r \in Requests :
             /\ (up[r] # "failed" /\ up'[r] = "failed")
                    => /\ Len(adapter'[r].out) = Len(adapter[r].out) + 1
                       /\ SubSeq(adapter'[r].out, 1, Len(adapter[r].out)) = adapter[r].out
                       /\ SubSeq(delivered'[r], 1, Len(delivered[r])) = delivered[r]
             /\ up[r] = "failed"
                    => adapter'[r].out = adapter[r].out /\ delivered'[r] = delivered[r]]_vars

\* a transport failure after two increments were delivered
C9_Witness ==
    \E r \in Requests :
        /\ up[r] = "failed"
        /\ Len(adapter[r].out) = 3
        /\ adapter[r].out[1].text = DeltaA
        /\ delivered[r] = Texts(adapter[r].out)

\* a line the claim calls malformed or no text increment: not JSON, JSON that is no
\* object, an object of another type, an empty increment
Skipped(line) ==
    \/ line.kind \in {"not_json", "json_non_object", "other_type", "no_delta"}
    \/ line.kind = "text_delta" /\ line.delta = <<>>

NotSkipped(line) == ~Skipped(line)

\* C10: a line that is malformed or no text increment produces no increment and does
\* not end the sequence: what the adapter has emitted for the lines read equals what it
\* emits for the same lines with those lines removed.
C10_SkippedLinesChangeNothing ==
    \A r \in Requests :
        up[r] \in {"open", "done", "closed"}
            => adapter[r].out
                 = RunLines(NewAdapter(adapter[r].is_continuation, adapter[r].last_partial_line),
                            SelectSeq(consumed[r], NotSkipped)).out


\* the assistant message a continuation resumes, as load_msgs returned it
PriorMessage(r) == chat_history[r][Len(chat_history[r]) - 1].content

\* C12: in a continuation stream the overlap correction changes at most the first
\* non-empty increment: every increment received after it is emitted as received,
\* also when the correction left the first one empty.
C12_LaterIncrementsUnmodified ==
    \A r \in Requests :
        (data[r].action = "continue" /\ adapter[r].raised = "")
            => \A k \in 2..Len(adapter[r].out) :
                   adapter[r].out[k].text = IncrementTexts(r)[k]

\* C13: in a continuation stream the flag reported with each increment is the parity
\* of the triple-backquote markers of the prior assistant message followed by the
\* increments received so far.
C13_FlagCarriesPriorParity ==
    \A r \in Requests :
        data[r].action = "continue"
            => \A k \in 1..Len(TextYields(r)) :
                   TextYields(r)[k].open
                     = (Count(PriorMessage(r) \o Concat(SubSeq(IncrementTexts(r), 1, k)),
                              Fence) % 2 = 1)

\* the places of the increments read before any end-of-stream marker
PlacesBeforeDone(r) ==
    {k \in IncrementPlaces(r) : \A j \in 1..(k - 1) : consumed[r][j].kind # "done"}

\* C14: once the end-of-stream marker has been read no further increment is emitted:
\* the adapter has emitted one item for each increment read before the marker, and
\* none for those after it.
C14_NothingAfterDone ==
    \A r \in Requests :
        adapter[r].raised = ""
            => Len(adapter[r].out) = Cardinality(PlacesBeforeDone(r))

\* every line read so far is a text increment
OnlyIncrements(r) == \A k \in 1..Len(consumed[r]) : consumed[r][k].kind = "text_delta"

\* C19: in a continuation stream with no transport failure the overlap correction
\* never raises, whatever the increment texts: no provider-error item is emitted and
\* every non-empty increment read has its item.
C19_CorrectionNeverRaises ==
    \A r \in Requests :
        (data[r].action = "continue" /\ up[r] # "failed" /\ OnlyIncrements(r))
            => /\ adapter[r].raised = ""
               /\ \A k \in 1..Len(adapter[r].out) : ~IsProviderError(adapter[r].out[k])
               /\ Len(adapter[r].out) = Len(IncrementTexts(r))

\* C17: within one generation request the chunks delivered to the client are the
\* increments the adapter yielded, in the same order, none lost, duplicated or
\* reordered; what was delivered is never changed afterwards.
C17_DeliveredIsYielded ==
    /\ [](\A r \in Requests : delivered[r] = Texts(adapter[r].out))
    /\ [][\A r \in Requests :
             /\ Len(delivered'[r]) >= Len(delivered[r])
             /\ SubSeq(delivered'[r], 1, Len(delivered[r])) = delivered[r]]_vars

\* two different increments were yielded and delivered
C17_Witness ==
    \E r \in Requests :
        /\ Len(delivered[r]) = 2
        /\ delivered[r][1] # delivered[r][2]
        /\ delivered[r][1] # <<>>
        /\ adapter[r].raised = ""

\* the places of s where an opening tag starts, closed later or not
OpeningPlaces(s) == {i \in 1..Len(s) : OccursAtFolded(s, ThinkOpen, i)}

\* the text of the thinking annotation opened at place i of s: up to its closing tag,
\* or to the end of s when it is never closed
AnnotationAt(s, i) ==
    LET from   == i + Len(ThinkOpen)
        closes == ClosesFrom(s, from)
    IN  IF closes = {} THEN SubSeq(s, from, Len(s))
        ELSE SubSeq(s, from, SetMin(closes) - 1)

\* the non-empty annotation texts stored in the log of a session
AnnotationTexts(db, sid) ==
    UNION {{AnnotationAt(db[i].message, j) : j \in OpeningPlaces(db[i].message)} :
               i \in {i \in DOMAIN db : db[i].session_id = sid}}
    \ {<<>>}

\* t occurs in s
Occurs(s, t) == \E j \in 1..Len(s) : OccursAt(s, t, j)

\* C15: no message of the history chat() hands to the provider, the continuation
\* prompt included, holds the text of a thinking annotation stored in the session's
\* log, closed or not.
C15_NoThinkingReplayed ==
    \A r \in Requests :
        \A k \in 1..Len(chat_history[r]) :
            \A t \in AnnotationTexts(chats, data[r].session) :
                ~Occurs(chat_history[r][k].content, t)

\* the stored log of a session: the roles and texts of its rows, in id order
IsOf(sid, row) == row.session_id = sid

SessionLog(db, sid) ==
    LET rows == SelectSeq(db, LAMBDA row : IsOf(sid, row))
    IN  [k \in 1..Len(rows) |-> [role |-> rows[k].role, message |-> rows[k].message]]

\* the assistant message the handler of request r stores for its turn
StoredAnswer(r) == IF Streaming(r) THEN PlaceholderText ELSE result[r].content

UpdateStep(t) == thread[t].pc = "update_select" /\ thread'[t].pc = "update_commit"

\* C16: update_last_bot_message on a session that has a bot message changes only the
\* bot message of that session that was appended last, by appending the given text to
\* it; every other row and the number of rows stay as they were.
C16_UpdateChangesLastBotOnly ==
    [][\A t \in Threads :
          UpdateStep(t)
              => LET last == SetMax(BotRows(chats, thread[t].sid))
                 IN  /\ Len(chats') = Len(chats)
                     /\ chats'[last] = [chats[last] EXCEPT !.message = @ \o thread[t].msg]
                     /\ \A i \in DOMAIN chats : i # last => chats'[i] = chats[i]]_vars

\* thread t is inside a call
InCall(t) == thread[t].pc \notin {"idle", "returned"}

\* a step of a call that is under way
CallStep ==
    \E t \in Threads :
        \/ SaveAcquire(t) \/ SaveInsert(t) \/ UpdateAcquire(t)
        \/ UpdateAppend(t) \/ UpdateInsert(t) \/ UpdateReturn(t)

\* C18: every call of save_msg and of update_last_bot_message returns with db_lock
\* released: while a call is under way some call can take a step, so that no caller
\* waits for db_lock for ever, and when no call is under way the lock is free.
C18_CallsReturn ==
    /\ (\E t \in Threads : InCall(t)) => ENABLED CallStep
    /\ (\A t \in Threads : ~InCall(t)) => db_lock = ""
=============================================================================
